---- MODULE Spec2Model ----
(***************************************************************************)
(* Model of the RustDDS shapes interoperability client                     *)
(* (src/RustDDS/src/main.rs): the shape motion function move_shape and the *)
(* readiness-driven publisher / subscriber loops of main.                  *)
(***************************************************************************)
EXTENDS Integers, Sequences, FiniteSets, TLC

\* ------------------------------------------------------------------------
\* i32 arithmetic
\* ------------------------------------------------------------------------

\* largest and smallest value of the i32 fields of Shape
MaxI32 == 2147483647
MinI32 == (-MaxI32) - 1

\* a + b on i32: ovf tells whether the mathematical sum leaves the i32 range,
\* val is the two's complement (wrapped) sum
WrapAdd(a, b) ==
  IF b > 0 /\ a > MaxI32 - b
    THEN [ovf |-> TRUE, val |-> MinI32 + ((a - (MaxI32 - b)) - 1)]
    ELSE IF b < 0 /\ a < MinI32 - b
      THEN [ovf |-> TRUE, val |-> MaxI32 - (((MinI32 - b) - a) - 1)]
      ELSE [ovf |-> FALSE, val |-> a + b]

\* -v on i32
WrapNeg(v) ==
  IF v = MinI32 THEN [ovf |-> TRUE, val |-> MinI32]
                ELSE [ovf |-> FALSE, val |-> 0 - v]

\* n / 2 on i32 (rounds toward zero)
Half2(n) == IF n >= 0 THEN n \div 2 ELSE (n + 1) \div 2

\* ------------------------------------------------------------------------
\* move_shape
\* ------------------------------------------------------------------------

DA_WIDTH == 240
DA_HEIGHT == 270

\* let half_size = shape.shapesize/2 + 1;
half_size(shape) == Half2(shape.shapesize) + 1

\* MoveAxis keeping the velocity when it pins to the upper bound
MoveAxis_KeepsOnUpper(c, v, half, limit) ==
  LET t   == WrapAdd(c, v)
      neg == WrapNeg(v)
      lo  == t.val < half
      c1  == IF lo THEN half ELSE t.val
      hi  == c1 > limit - half
      c2  == IF hi THEN limit - half ELSE c1
  IN  [c   |-> c2,
       v   |-> IF lo THEN neg.val ELSE v,
       ovf |-> t.ovf \/ (lo /\ neg.ovf)]

\* MoveAxis without the comparison against the lower bound
MoveAxis_NoLower(c, v, half, limit) ==
  LET t   == WrapAdd(c, v)
      neg == WrapNeg(v)
      hi  == t.val > limit - half
  IN  [c   |-> IF hi THEN limit - half ELSE t.val,
       v   |-> IF hi THEN neg.val ELSE v,
       ovf |-> t.ovf \/ (hi /\ neg.ovf)]

\* MoveAxis without the comparison against the upper bound
MoveAxis_NoUpper(c, v, half, limit) ==
  LET t   == WrapAdd(c, v)
      neg == WrapNeg(v)
      lo  == t.val < half
  IN  [c   |-> IF lo THEN half ELSE t.val,
       v   |-> IF lo THEN neg.val ELSE v,
       ovf |-> t.ovf \/ (lo /\ neg.ovf)]

\* MoveAxis comparing with <= against the lower bound
MoveAxis_LowerInclusive(c, v, half, limit) ==
  LET t   == WrapAdd(c, v)
      neg == WrapNeg(v)
      lo  == t.val <= half
      c1  == IF lo THEN half ELSE t.val
      hi  == c1 > limit - half
      c2  == IF hi THEN limit - half ELSE c1
  IN  [c   |-> c2,
       v   |-> IF lo \/ hi THEN neg.val ELSE v,
       ovf |-> t.ovf \/ ((lo \/ hi) /\ neg.ovf)]

\* One axis of move_shape: the tentative coordinate c + v, the two
\* independent comparisons against half and limit - half, and the velocity
\* that goes with them.  ovf: an i32 operation of this axis overflowed.
MoveAxis(c, v, half, limit) ==
  LET t   == WrapAdd(c, v)
      neg == WrapNeg(v)
      lo  == t.val < half
      c1  == IF lo THEN half ELSE t.val
      hi  == c1 > limit - half
      c2  == IF hi THEN limit - half ELSE c1
  IN  [c   |-> c2,
       v   |-> IF lo \/ hi THEN neg.val ELSE v,
       ovf |-> t.ovf \/ ((lo \/ hi) /\ neg.ovf)]

\* move_shape returning a shape one unit larger
move_shape_Grows(shape, xv, yv) ==
  LET h  == half_size(shape)
      ax == MoveAxis(shape.x, xv, h, DA_WIDTH)
      ay == MoveAxis(shape.y, yv, h, DA_HEIGHT)
  IN  [shape |-> [color |-> shape.color, x |-> ax.c, y |-> ay.c,
                  shapesize |-> shape.shapesize + 1],
       xv |-> ax.v, yv |-> ay.v]

\* move_shape negating both velocity components when either axis collides
move_shape_Coupled(shape, xv, yv) ==
  LET h  == half_size(shape)
      ax == MoveAxis(shape.x, xv, h, DA_WIDTH)
      ay == MoveAxis(shape.y, yv, h, DA_HEIGHT)
      hit == ax.v # xv \/ ay.v # yv
  IN  [shape |-> [color |-> shape.color, x |-> ax.c, y |-> ay.c,
                  shapesize |-> shape.shapesize],
       xv |-> IF hit THEN WrapNeg(xv).val ELSE xv,
       yv |-> IF hit THEN WrapNeg(yv).val ELSE yv]

\* move_shape checking the y axis only when the x axis did not collide
move_shape_Exclusive(shape, xv, yv) ==
  LET h  == half_size(shape)
      ax == MoveAxis(shape.x, xv, h, DA_WIDTH)
      ay == MoveAxis(shape.y, yv, h, DA_HEIGHT)
      hitx == ax.v # xv
  IN  [shape |-> [color |-> shape.color, x |-> ax.c,
                  y |-> IF hitx THEN WrapAdd(shape.y, yv).val ELSE ay.c,
                  shapesize |-> shape.shapesize],
       xv |-> ax.v, yv |-> IF hitx THEN yv ELSE ay.v]

\* The value move_shape returns when no arithmetic check stops it.
move_shape(shape, xv, yv) ==
  LET h  == half_size(shape)
      ax == MoveAxis(shape.x, xv, h, DA_WIDTH)
      ay == MoveAxis(shape.y, yv, h, DA_HEIGHT)
  IN  [shape |-> [color |-> shape.color, x |-> ax.c, y |-> ay.c,
                  shapesize |-> shape.shapesize],
       xv |-> ax.v, yv |-> ay.v]

\* An i32 operation of move_shape overflows on this input.  x + xv is
\* evaluated first; a panic there stops the call before y + yv.
move_overflows(shape, xv, yv) ==
  LET h == half_size(shape)
  IN  \/ MoveAxis(shape.x, xv, h, DA_WIDTH).ovf
      \/ MoveAxis(shape.y, yv, h, DA_HEIGHT).ovf

\* The outcomes of one call: the returned triple, or, on i32 overflow, either
\* an arithmetic panic (overflow checks on) or the wrapped result (checks off).
NoShape == [color |-> "none", x |-> 0, y |-> 0, shapesize |-> 0]
MoveOutcomes(shape, xv, yv) ==
  LET r == move_shape(shape, xv, yv)
  IN  IF move_overflows(shape, xv, yv)
        THEN {[kind |-> "panic", shape |-> NoShape, xv |-> 0, yv |-> 0],
              [kind |-> "ok", shape |-> r.shape, xv |-> r.xv, yv |-> r.yv]}
        ELSE {[kind |-> "ok", shape |-> r.shape, xv |-> r.xv, yv |-> r.yv]}

\* ------------------------------------------------------------------------
\* State
\* ------------------------------------------------------------------------

\* mio tokens of the registered event sources; Token(3) is never registered
STOP_PROGRAM == 0
READER_READY == 1
STATUS_READY == 2
UNKNOWN_TOKEN == 3
Tokens == {STOP_PROGRAM, READER_READY, STATUS_READY, UNKNOWN_TOKEN}

\* Events::with_capacity(4)
EventsCapacity == 4

\* bounds of the model
MaxTicks == 2       \* publish ticks observed in one run
MaxSignals == 1     \* Ctrl-C presses
MaxArrivals == 2    \* updates arriving at the reader
MaxStatus == 2      \* status notifications arriving
MaxRun == 128       \* publish ticks of an undisturbed publisher run (SpecRun)

VARIABLES
  arg,          \* the arguments of the call of move_shape (SpecMove)
  ret,          \* its outcome ("none" before the call)
  role,         \* "publisher" or "subscriber" (matches.is_present)
  pc,           \* position of main: "poll", "dispatch" (the for loop over
                \* events), "status" (while let), "drain" (take loop),
                \* "done" (return after Done.), "panic"
  events,       \* tokens of the events of the current wakeup not yet
                \* dispatched; poll returns them in no specified order, so
                \* the for loop takes any of them next
  readiness,    \* tokens whose source has signalled readiness since the
                \* last poll (edge-triggered registrations)
  stop_chan,    \* messages in the Ctrl-C channel
  reader_q,     \* updates held by the DataReader
  status_q,     \* status notifications held by the reader / writer
  shape_sample, \* publisher: the shape
  x_vel, y_vel, \* publisher: the velocity
  written,      \* samples handed to the DataWriter successfully
  wticks,       \* publish ticks performed since the last poll returned
  taken,        \* items taken by the current drain, in order
  drain_q0,     \* reader_q when the current drain started
  drain_narr,   \* updates that arrived while the current drain ran
  errs,         \* failed takes of the current drain: 0 none, else 1 after
                \* an odd and 2 after an even number of them
  narrived,     \* updates that have arrived so far
  nstatus,      \* status notifications that have arrived so far
  last,         \* what the last step of main did
  flags,        \* the unsupported QoS options present on the command line
  created,      \* the DDS entities created so far
  registered,   \* the tokens registered with poll so far
  vel0,         \* publisher: the velocity drawn at start
  sticks,       \* publish ticks performed while a Ctrl-C message was in
                \* the stop channel
  status_seen   \* the status notifications printed so far, in order

vars == <<arg, ret, role, pc, events, readiness, stop_chan, reader_q,
          status_q, shape_sample, x_vel, y_vel, written, wticks, taken,
          drain_q0, drain_narr, errs, narrived, nstatus, last, flags,
          created, registered, vel0, sticks, status_seen>>

moveVars == <<arg, ret>>
cfgVars == <<flags, created, registered, vel0>>
pubVars == <<shape_sample, x_vel, y_vel, written>>
drainVars == <<taken, drain_q0, drain_narr, errs>>

NoRet == [kind |-> "none", shape |-> NoShape, xv |-> 0, yv |-> 0]
NoArg == [shape |-> NoShape, xv |-> 0, yv |-> 0]

\* ------------------------------------------------------------------------
\* SpecMove: move_shape applied to inputs drawn from bounded sets
\* ------------------------------------------------------------------------

\* shape sizes: below, at and around the sizes where half reaches the middle
\* of the arena (239/240 for the width, 269/270 for the height)
Sizes == {0, 20, 21, 239, 240, 269, 270, 400, MaxI32}
Xs == {MinI32, -2, 1, 10, 11, 12, 120, 228, 229, 230, MaxI32}
Ys == {MinI32, -2, 1, 10, 11, 12, 120, 258, 259, 260, MaxI32}
Vels == {-300, -3, -1, 1, 3, 300}

IdleMain ==
  /\ role = "none" /\ pc = "idle" /\ events = {} /\ readiness = {}
  /\ stop_chan = 0 /\ reader_q = <<>> /\ status_q = <<>>
  /\ shape_sample = NoShape /\ x_vel = 0 /\ y_vel = 0 /\ written = <<>>
  /\ wticks = 0 /\ taken = <<>> /\ drain_q0 = <<>> /\ drain_narr = 0
  /\ errs = 0 /\ narrived = 0 /\ nstatus = 0 /\ last = "init"
  /\ flags = {} /\ created = {} /\ registered = {} /\ vel0 = <<0, 0>>
  /\ sticks = 0 /\ status_seen = <<>>

MoveInit ==
  /\ arg \in [shape : [color : {"BLUE"}, x : Xs, y : Ys, shapesize : Sizes],
              xv : Vels, yv : Vels]
  /\ ret = NoRet
  /\ IdleMain

CallMove ==
  /\ ret.kind = "none"
  /\ ret' \in MoveOutcomes(arg.shape, arg.xv, arg.yv)
  /\ UNCHANGED <<arg, role, pc, events, readiness, stop_chan, reader_q,
                 status_q, pubVars, wticks, drainVars, narrived, nstatus,
                 last, cfgVars, sticks, status_seen>>

MoveNext == CallMove
SpecMove == MoveInit /\ [][MoveNext]_vars

\* ------------------------------------------------------------------------
\* Spec: main, in the publisher or the subscriber role
\* ------------------------------------------------------------------------

\* the entities main creates for a role, and the tokens it registers
Entities(r) ==
  IF r = "publisher" THEN {"topic", "publisher", "writer"}
                     ELSE {"topic", "subscriber", "reader"}
Registered(r) ==
  IF r = "publisher" THEN {STOP_PROGRAM, STATUS_READY}
                     ELSE {STOP_PROGRAM, READER_READY, STATUS_READY}

\* InitVels with both ends of the two ranges included
InitVels_Inclusive == (1 .. 5) \cup (-5 .. -1)

\* gen_range(1..5) and gen_range(-5..-1)
InitVels == (1 .. 4) \cup (-5 .. -2)

Init ==
  /\ arg = NoArg /\ ret = NoRet
  /\ role \in {"publisher", "subscriber"}
  /\ pc = "poll" /\ events = {} /\ readiness = {}
  /\ stop_chan = 0 /\ reader_q = <<>> /\ status_q = <<>>
  /\ IF role = "publisher"
       THEN /\ shape_sample = [color |-> "BLUE", x |-> 0, y |-> 0,
                               shapesize |-> 21]
            /\ x_vel \in InitVels /\ y_vel \in InitVels
       ELSE /\ shape_sample = NoShape /\ x_vel = 0 /\ y_vel = 0
  /\ written = <<>> /\ wticks = 0
  /\ taken = <<>> /\ drain_q0 = <<>> /\ drain_narr = 0 /\ errs = 0
  /\ narrived = 0 /\ nstatus = 0 /\ last = "init"
  /\ flags = {}
  /\ created = Entities(role) /\ registered = Registered(role)
  /\ vel0 = <<x_vel, y_vel>>
  /\ sticks = 0 /\ status_seen = <<>>

\* --- the environment -------------------------------------------------------

\* The process exists: main is in one of its loops.  The channel, the
\* reader, the writer and the poll registrations are its objects.
Alive == pc \in {"poll", "dispatch", "status", "drain"}

\* The Ctrl-C handler sends () on the stop channel; the channel becomes
\* readable.
CtrlC ==
  /\ Alive
  /\ role \in {"publisher", "subscriber"}
  /\ stop_chan < MaxSignals
  /\ stop_chan' = stop_chan + 1
  /\ readiness' = readiness \cup {STOP_PROGRAM}
  /\ UNCHANGED <<moveVars, cfgVars, sticks, status_seen,
                 role, pc, events, reader_q, status_q, pubVars,
                 wticks, drainVars, narrived, nstatus, last>>

\* An update (a value or a disposal) reaches the DataReader, which signals
\* READER_READY.
DataArrive ==
  /\ Alive
  /\ role = "subscriber"
  /\ narrived < MaxArrivals
  /\ \E k \in {"value", "disposed"} :
       reader_q' = Append(reader_q, [kind |-> k, id |-> narrived + 1])
  /\ narrived' = narrived + 1
  /\ readiness' = readiness \cup {READER_READY}
  /\ drain_narr' = IF pc = "drain" THEN drain_narr + 1 ELSE drain_narr
  /\ UNCHANGED <<moveVars, cfgVars, sticks, status_seen,
                 role, pc, events, stop_chan, status_q, pubVars,
                 wticks, taken, drain_q0, errs, nstatus, last>>

\* A status notification reaches the reader / writer, which signals
\* STATUS_READY.
StatusArrive ==
  /\ Alive
  /\ role \in {"publisher", "subscriber"}
  /\ nstatus < MaxStatus
  /\ status_q' = Append(status_q, nstatus + 1)
  /\ nstatus' = nstatus + 1
  /\ readiness' = readiness \cup {STATUS_READY}
  /\ UNCHANGED <<moveVars, cfgVars, sticks, status_seen,
                 role, pc, events, stop_chan, reader_q, pubVars,
                 wticks, drainVars, narrived, last>>

\* A wakeup with nothing behind it: the stop channel reported readable with
\* no message to receive, or a token no source was registered with.
Spurious ==
  /\ Alive
  /\ role \in {"publisher", "subscriber"}
  /\ \E t \in {STOP_PROGRAM, UNKNOWN_TOKEN} \ readiness :
       readiness' = readiness \cup {t}
  /\ UNCHANGED <<moveVars, cfgVars, sticks, status_seen,
                 role, pc, events, stop_chan, reader_q, status_q,
                 pubVars, wticks, drainVars, narrived, nstatus, last>>

\* --- main ------------------------------------------------------------------

Min(a, b) == IF a < b THEN a ELSE b

\* the events a poll may return for a set of ready tokens: one event per
\* ready token, at most EventsCapacity of them
EventSets(ready) ==
  LET n == Min(Cardinality(ready), EventsCapacity)
  IN  {evs \in SUBSET ready : Cardinality(evs) = n}

\* Poll losing the readiness of the stop channel
Poll_LosesStop ==
  /\ pc = "poll"
  /\ role = "subscriber" => readiness # {}
  /\ role = "publisher" => Len(written) < MaxTicks \/ stop_chan > 0
  /\ \E evs \in EventSets(readiness) :
       /\ events' = evs \ {STOP_PROGRAM}
       /\ readiness' = readiness \ evs
  /\ pc' = "dispatch"
  /\ wticks' = 0
  /\ taken' = <<>> /\ drain_q0' = <<>> /\ drain_narr' = 0 /\ errs' = 0
  /\ last' = "poll"
  /\ UNCHANGED <<moveVars, cfgVars, sticks, status_seen,
                 role, stop_chan, reader_q, status_q, pubVars,
                 narrived, nstatus>>

\* poll.poll(&mut events, timeout): the publisher waits at most 200 ms and
\* may wake up with no event; the subscriber waits until there is one.
\* The run is observed for MaxTicks samples, and beyond them while a
\* cancellation is pending.
Poll ==
  /\ pc = "poll"
  /\ role = "subscriber" => readiness # {}
  /\ role = "publisher" => Len(written) < MaxTicks \/ stop_chan > 0
  /\ \E evs \in EventSets(readiness) :
       /\ events' = evs
       /\ readiness' = readiness \ evs
  /\ pc' = "dispatch"
  /\ wticks' = 0
  /\ taken' = <<>> /\ drain_q0' = <<>> /\ drain_narr' = 0 /\ errs' = 0
  /\ last' = "poll"
  /\ UNCHANGED <<moveVars, cfgVars, sticks, status_seen,
                 role, stop_chan, reader_q, status_q, pubVars,
                 narrived, nstatus>>

\* DispatchStop leaving the loop also when try_recv finds nothing
DispatchStop_ExitOnEmpty ==
  /\ pc = "dispatch" /\ events # {}
  /\ STOP_PROGRAM \in events
  /\ IF stop_chan > 0
       THEN /\ stop_chan' = stop_chan - 1
            /\ pc' = "done"
            /\ last' = "stop_recv"
            /\ UNCHANGED events
       ELSE /\ pc' = "done"
            /\ last' = "stop_empty"
            /\ UNCHANGED <<stop_chan, events>>
  /\ UNCHANGED <<moveVars, cfgVars, sticks, status_seen,
                 role, readiness, reader_q, status_q, pubVars,
                 wticks, drainVars, narrived, nstatus>>

\* STOP_PROGRAM => match stop_receiver.try_recv()
DispatchStop ==
  /\ pc = "dispatch" /\ events # {}
  /\ STOP_PROGRAM \in events
  /\ IF stop_chan > 0
       THEN /\ stop_chan' = stop_chan - 1
            /\ pc' = "done"
            /\ last' = "stop_recv"
            /\ UNCHANGED events
       ELSE /\ events' = events \ {STOP_PROGRAM}
            /\ last' = "stop_empty"
            /\ UNCHANGED <<stop_chan, pc>>
  /\ UNCHANGED <<moveVars, cfgVars, sticks, status_seen,
                 role, readiness, reader_q, status_q, pubVars,
                 wticks, drainVars, narrived, nstatus>>

\* READER_READY => loop { ... } (subscriber)
DispatchReader ==
  /\ pc = "dispatch" /\ events # {}
  /\ role = "subscriber"
  /\ READER_READY \in events
  /\ events' = events \ {READER_READY}
  /\ pc' = "drain"
  /\ taken' = <<>> /\ drain_q0' = reader_q /\ drain_narr' = 0 /\ errs' = 0
  /\ last' = "to_drain"
  /\ UNCHANGED <<moveVars, cfgVars, sticks, status_seen,
                 role, readiness, stop_chan, reader_q, status_q,
                 pubVars, wticks, narrived, nstatus>>

\* TakeNext where Err(e) breaks out of the loop as Ok(None) does
TakeNext_ErrBreaks ==
  /\ pc = "drain"
  /\ \/ /\ reader_q # <<>>
        /\ taken' = Append(taken, Head(reader_q))
        /\ reader_q' = Tail(reader_q)
        /\ last' = "take_some"
        /\ UNCHANGED <<pc, errs>>
     \/ /\ reader_q = <<>>
        /\ pc' = "dispatch"
        /\ last' = "take_none"
        /\ UNCHANGED <<reader_q, taken, errs>>
     \/ /\ errs' = IF errs = 1 THEN 2 ELSE 1
        /\ pc' = "dispatch"
        /\ last' = "take_err"
        /\ UNCHANGED <<reader_q, taken>>
  /\ UNCHANGED <<moveVars, cfgVars, sticks, status_seen,
                 role, events, readiness, stop_chan, status_q,
                 pubVars, wticks, drain_q0, drain_narr, narrived, nstatus>>

\* TakeNext leaving the loop after the first sample it takes
TakeNext_OneSample ==
  /\ pc = "drain"
  /\ \/ /\ reader_q # <<>>
        /\ taken' = Append(taken, Head(reader_q))
        /\ reader_q' = Tail(reader_q)
        /\ pc' = "dispatch"
        /\ last' = "take_some"
        /\ UNCHANGED errs
     \/ /\ reader_q = <<>>
        /\ pc' = "dispatch"
        /\ last' = "take_none"
        /\ UNCHANGED <<reader_q, taken, errs>>
     \/ /\ errs' = IF errs = 1 THEN 2 ELSE 1
        /\ last' = "take_err"
        /\ UNCHANGED <<pc, reader_q, taken>>
  /\ UNCHANGED <<moveVars, cfgVars, sticks, status_seen,
                 role, events, readiness, stop_chan, status_q,
                 pubVars, wticks, drain_q0, drain_narr, narrived, nstatus>>

\* one iteration of the take loop: match reader.take_next_sample()
TakeNext ==
  /\ pc = "drain"
  /\ \/ \* Ok(Some(sample)): printed as a shape or as a disposed key
        /\ reader_q # <<>>
        /\ taken' = Append(taken, Head(reader_q))
        /\ reader_q' = Tail(reader_q)
        /\ last' = "take_some"
        /\ UNCHANGED <<pc, errs>>
     \/ \* Ok(None) => break
        /\ reader_q = <<>>
        /\ pc' = "dispatch"
        /\ last' = "take_none"
        /\ UNCHANGED <<reader_q, taken, errs>>
     \/ \* Err(e) => println!: the loop goes on
        /\ errs' = IF errs = 1 THEN 2 ELSE 1
        /\ last' = "take_err"
        /\ UNCHANGED <<pc, reader_q, taken>>
  /\ UNCHANGED <<moveVars, cfgVars, sticks, status_seen,
                 role, events, readiness, stop_chan, status_q,
                 pubVars, wticks, drain_q0, drain_narr, narrived, nstatus>>

\* STATUS_READY => while let Some(status) = ...try_recv_status()
DispatchStatus ==
  /\ pc = "dispatch" /\ events # {}
  /\ STATUS_READY \in events
  /\ events' = events \ {STATUS_READY}
  /\ pc' = "status"
  /\ last' = "to_status"
  /\ UNCHANGED <<moveVars, cfgVars, sticks, status_seen,
                 role, readiness, stop_chan, reader_q, status_q,
                 pubVars, wticks, drainVars, narrived, nstatus>>

\* RecvStatus as an if let: one status is printed and the handler returns
RecvStatus_Once ==
  /\ pc = "status"
  /\ IF status_q # <<>>
       THEN /\ status_q' = Tail(status_q)
            /\ status_seen' = Append(status_seen, Head(status_q))
            /\ pc' = "dispatch"
            /\ last' = "status_some"
       ELSE /\ pc' = "dispatch"
            /\ last' = "status_none"
            /\ UNCHANGED <<status_q, status_seen>>
  /\ UNCHANGED <<moveVars, cfgVars, sticks,
                 role, events, readiness, stop_chan, reader_q,
                 pubVars, wticks, drainVars, narrived, nstatus>>

\* one evaluation of the while let: a status is printed, or the loop ends
RecvStatus ==
  /\ pc = "status"
  /\ IF status_q # <<>>
       THEN /\ status_q' = Tail(status_q)
            /\ status_seen' = Append(status_seen, Head(status_q))
            /\ last' = "status_some"
            /\ UNCHANGED pc
       ELSE /\ pc' = "dispatch"
            /\ last' = "status_none"
            /\ UNCHANGED <<status_q, status_seen>>
  /\ UNCHANGED <<moveVars, cfgVars, sticks,
                 role, events, readiness, stop_chan, reader_q,
                 pubVars, wticks, drainVars, narrived, nstatus>>

\* the tokens a role has a match arm for
Recognized(r) ==
  IF r = "publisher" THEN {STOP_PROGRAM, STATUS_READY}
                     ELSE {STOP_PROGRAM, READER_READY, STATUS_READY}

\* DispatchOther returning from main on an unrecognized token
DispatchOther_Exit ==
  /\ pc = "dispatch" /\ events # {}
  /\ events \ Recognized(role) # {}
  /\ pc' = "done"
  /\ last' = "other"
  /\ UNCHANGED <<moveVars, cfgVars, sticks, status_seen,
                 role, events, readiness, stop_chan, reader_q,
                 status_q, pubVars, wticks, drainVars, narrived, nstatus>>

\* other_token => println!("Polled event is {:?}. WTF?")
DispatchOther ==
  /\ pc = "dispatch" /\ events # {}
  /\ \E t \in events \ Recognized(role) : events' = events \ {t}
  /\ last' = "other"
  /\ UNCHANGED <<moveVars, cfgVars, sticks, status_seen,
                 role, pc, readiness, stop_chan, reader_q,
                 status_q, pubVars, wticks, drainVars, narrived, nstatus>>

\* PublishTick ticking only in wakeups that dispatched no event
PublishTick_OnTimeoutOnly ==
  /\ pc = "dispatch" /\ events = {}
  /\ role = "publisher"
  /\ IF last = "poll"
       THEN /\ wticks' = wticks + 1
            /\ sticks' = IF stop_chan > 0 THEN sticks + 1 ELSE sticks
            /\ \E r \in MoveOutcomes(shape_sample, x_vel, y_vel) :
                 /\ shape_sample' = r.shape
                 /\ x_vel' = r.xv
                 /\ y_vel' = r.yv
                 /\ \E ok \in BOOLEAN :
                      IF ok
                        THEN /\ written' = Append(written, r.shape)
                             /\ pc' = "poll"
                             /\ last' = "tick"
                        ELSE /\ pc' = "panic"
                             /\ last' = "write_failed"
                             /\ UNCHANGED written
       ELSE /\ pc' = "poll"
            /\ last' = "end"
            /\ UNCHANGED <<wticks, sticks, pubVars>>
  /\ UNCHANGED <<moveVars, cfgVars, status_seen,
                 role, events, readiness, stop_chan, reader_q,
                 status_q, drainVars, narrived, nstatus>>

\* PublishTick dropping the result of writer.write
PublishTick_IgnoreFailure ==
  /\ pc = "dispatch" /\ events = {}
  /\ role = "publisher"
  /\ wticks' = wticks + 1
  /\ sticks' = IF stop_chan > 0 THEN sticks + 1 ELSE sticks
  /\ \E r \in MoveOutcomes(shape_sample, x_vel, y_vel) :
       /\ shape_sample' = r.shape
       /\ x_vel' = r.xv
       /\ y_vel' = r.yv
       /\ \E ok \in BOOLEAN :
            IF ok
              THEN /\ written' = Append(written, r.shape)
                   /\ last' = "tick"
              ELSE /\ last' = "write_failed"
                   /\ UNCHANGED written
       /\ pc' = "poll"
  /\ UNCHANGED <<moveVars, cfgVars, status_seen,
                 role, events, readiness, stop_chan, reader_q,
                 status_q, drainVars, narrived, nstatus>>

\* PublishTick writing the sample before it is moved
PublishTick_WriteThenMove ==
  /\ pc = "dispatch" /\ events = {}
  /\ role = "publisher"
  /\ wticks' = wticks + 1
  /\ sticks' = IF stop_chan > 0 THEN sticks + 1 ELSE sticks
  /\ \E r \in MoveOutcomes(shape_sample, x_vel, y_vel) :
       IF r.kind = "panic"
         THEN /\ pc' = "panic"
              /\ last' = "move_panic"
              /\ UNCHANGED pubVars
         ELSE /\ shape_sample' = r.shape
              /\ x_vel' = r.xv
              /\ y_vel' = r.yv
              /\ \E ok \in BOOLEAN :
                   IF ok
                     THEN /\ written' = Append(written, shape_sample)
                          /\ pc' = "poll"
                          /\ last' = "tick"
                     ELSE /\ pc' = "panic"
                          /\ last' = "write_failed"
                          /\ UNCHANGED written
  /\ UNCHANGED <<moveVars, cfgVars, status_seen,
                 role, events, readiness, stop_chan, reader_q,
                 status_q, drainVars, narrived, nstatus>>

\* publisher, after the for loop: move_shape, then writer.write(..).expect(..)
PublishTick ==
  /\ pc = "dispatch" /\ events = {}
  /\ role = "publisher"
  /\ wticks' = wticks + 1
  /\ sticks' = IF stop_chan > 0 THEN sticks + 1 ELSE sticks
  /\ \E r \in MoveOutcomes(shape_sample, x_vel, y_vel) :
       IF r.kind = "panic"
         THEN /\ pc' = "panic"
              /\ last' = "move_panic"
              /\ UNCHANGED pubVars
         ELSE /\ shape_sample' = r.shape
              /\ x_vel' = r.xv
              /\ y_vel' = r.yv
              /\ \E ok \in BOOLEAN :
                   IF ok
                     THEN /\ written' = Append(written, r.shape)
                          /\ pc' = "poll"
                          /\ last' = "tick"
                     ELSE /\ pc' = "panic"
                          /\ last' = "write_failed"
                          /\ UNCHANGED written
  /\ UNCHANGED <<moveVars, cfgVars, status_seen,
                 role, events, readiness, stop_chan, reader_q,
                 status_q, drainVars, narrived, nstatus>>

\* subscriber, after the for loop: back to poll
EndWakeup ==
  /\ pc = "dispatch" /\ events = {}
  /\ role = "subscriber"
  /\ pc' = "poll"
  /\ last' = "end"
  /\ UNCHANGED <<moveVars, cfgVars, sticks, status_seen,
                 role, events, readiness, stop_chan, reader_q,
                 status_q, pubVars, wticks, drainVars, narrived, nstatus>>

Environment == CtrlC \/ DataArrive \/ StatusArrive \/ Spurious
Main ==
  \/ Poll \/ DispatchStop \/ DispatchReader \/ TakeNext \/ DispatchStatus
  \/ RecvStatus \/ DispatchOther \/ PublishTick \/ EndWakeup

Next == Environment \/ Main
Spec == Init /\ [][Next]_vars

\* ------------------------------------------------------------------------
\* SpecProgram: main from the processing of the QoS options on
\* ------------------------------------------------------------------------

\* the QoS options main refuses
UnsupportedFlags == {"partition", "interval", "ownership_strength"}

\* The state after the command line has been read and the QoS builder
\* filled: no entity created, nothing registered.
SetupInit ==
  /\ arg = NoArg /\ ret = NoRet
  /\ role \in {"publisher", "subscriber"}
  /\ flags \in SUBSET UnsupportedFlags
  /\ pc = "qos" /\ events = {} /\ readiness = {}
  /\ stop_chan = 0 /\ reader_q = <<>> /\ status_q = <<>>
  /\ shape_sample = NoShape /\ x_vel = 0 /\ y_vel = 0
  /\ written = <<>> /\ wticks = 0
  /\ taken = <<>> /\ drain_q0 = <<>> /\ drain_narr = 0 /\ errs = 0
  /\ narrived = 0 /\ nstatus = 0 /\ last = "init"
  /\ created = {} /\ registered = {} /\ vel0 = <<0, 0>>
  /\ sticks = 0 /\ status_seen = <<>>

loopVars == <<events, readiness, stop_chan, reader_q, status_q, written,
              wticks, drainVars, narrived, nstatus, sticks, status_seen>>

\* QosCheck without the test of the ownership strength option
QosCheck_NoStrength ==
  /\ pc = "qos"
  /\ IF "partition" \in flags \/ "interval" \in flags
       THEN pc' = "panic" /\ last' = "qos_panic"
       ELSE pc' = "topic" /\ last' = "init"
  /\ UNCHANGED <<moveVars, role, flags, created, registered, vel0,
                 shape_sample, x_vel, y_vel, loopVars>>

\* if matches.is_present(..) { panic!(..) }, three times
QosCheck ==
  /\ pc = "qos"
  /\ IF "partition" \in flags
       THEN pc' = "panic" /\ last' = "qos_panic"
       ELSE IF "interval" \in flags
         THEN pc' = "panic" /\ last' = "qos_panic"
         ELSE IF "ownership_strength" \in flags
           THEN pc' = "panic" /\ last' = "qos_panic"
           ELSE pc' = "topic" /\ last' = "init"
  /\ UNCHANGED <<moveVars, role, flags, created, registered, vel0,
                 shape_sample, x_vel, y_vel, loopVars>>

\* create_topic(..).unwrap_or_else(|e| panic!(..))
CreateTopic ==
  /\ pc = "topic"
  /\ \E ok \in BOOLEAN :
       IF ok
         THEN /\ created' = created \cup {"topic"}
              /\ pc' = "handler" /\ last' = "init"
         ELSE /\ pc' = "panic" /\ last' = "setup_panic"
              /\ UNCHANGED created
  /\ UNCHANGED <<moveVars, role, flags, registered, vel0, shape_sample,
                 x_vel, y_vel, loopVars>>

\* ctrlc::set_handler(..).expect(..); Poll::new().unwrap();
\* poll.register(&stop_receiver, STOP_PROGRAM, ..).unwrap()
RegisterStop ==
  /\ pc = "handler"
  /\ \E ok \in BOOLEAN :
       IF ok
         THEN /\ registered' = registered \cup {STOP_PROGRAM}
              /\ pc' = "role" /\ last' = "init"
         ELSE /\ pc' = "panic" /\ last' = "setup_panic"
              /\ UNCHANGED registered
  /\ UNCHANGED <<moveVars, role, flags, created, vel0, shape_sample, x_vel,
                 y_vel, loopVars>>

\* the publisher branch up to its loop: publisher, writer, STATUS_READY,
\* shape_sample and the velocity lottery
StartPublisher ==
  /\ pc = "role" /\ role = "publisher"
  /\ \E ok \in BOOLEAN :
       IF ok
         THEN /\ created' = created \cup {"publisher", "writer"}
              /\ registered' = registered \cup {STATUS_READY}
              /\ shape_sample' = [color |-> "BLUE", x |-> 0, y |-> 0,
                                  shapesize |-> 21]
              /\ x_vel' \in InitVels /\ y_vel' \in InitVels
              /\ vel0' = <<x_vel', y_vel'>>
              /\ pc' = "poll" /\ last' = "init"
         ELSE /\ pc' = "panic" /\ last' = "setup_panic"
              /\ UNCHANGED <<created, registered, shape_sample, x_vel,
                             y_vel, vel0>>
  /\ UNCHANGED <<moveVars, role, flags, loopVars>>

\* the subscriber branch up to its loop: subscriber, reader, READER_READY
\* and STATUS_READY
StartSubscriber ==
  /\ pc = "role" /\ role = "subscriber"
  /\ \E ok \in BOOLEAN :
       IF ok
         THEN /\ created' = created \cup {"subscriber", "reader"}
              /\ registered' = registered \cup {READER_READY, STATUS_READY}
              /\ pc' = "poll" /\ last' = "init"
         ELSE /\ pc' = "panic" /\ last' = "setup_panic"
              /\ UNCHANGED <<created, registered>>
  /\ UNCHANGED <<moveVars, role, flags, vel0, shape_sample, x_vel, y_vel,
                 loopVars>>

Setup ==
  \/ QosCheck \/ CreateTopic \/ RegisterStop \/ StartPublisher
  \/ StartSubscriber
ProgramNext == Setup \/ Next
SpecProgram == SetupInit /\ [][ProgramNext]_vars

\* ------------------------------------------------------------------------
\* FairSub: the subscriber, whose single thread takes its next step whenever
\* it has one
\* ------------------------------------------------------------------------

SubInit == Init /\ role = "subscriber"
SubMain ==
  \/ Poll \/ DispatchStop \/ DispatchReader \/ TakeNext \/ DispatchStatus
  \/ RecvStatus \/ DispatchOther \/ EndWakeup
SubNext == Environment \/ SubMain
FairSub == SubInit /\ [][SubNext]_vars /\ WF_vars(SubMain)

\* ------------------------------------------------------------------------
\* SpecRun: a publisher left alone, every wakeup being the 200 ms timeout
\* ------------------------------------------------------------------------

\* values of the color argument (the default and another one)
Colors == {"BLUE", "RED"}

RunInit ==
  /\ arg = NoArg /\ ret = NoRet
  /\ role = "publisher"
  /\ pc = "poll" /\ events = {} /\ readiness = {}
  /\ stop_chan = 0 /\ reader_q = <<>> /\ status_q = <<>>
  /\ \E c \in Colors :
       shape_sample = [color |-> c, x |-> 0, y |-> 0, shapesize |-> 21]
  /\ x_vel \in InitVels /\ y_vel \in InitVels
  /\ written = <<>> /\ wticks = 0
  /\ taken = <<>> /\ drain_q0 = <<>> /\ drain_narr = 0 /\ errs = 0
  /\ narrived = 0 /\ nstatus = 0 /\ last = "init"
  /\ flags = {}
  /\ created = Entities(role) /\ registered = Registered(role)
  /\ vel0 = <<x_vel, y_vel>>
  /\ sticks = 0 /\ status_seen = <<>>

\* poll.poll(&mut events, Some(200 ms)) returning with no event
PollTimeout ==
  /\ pc = "poll"
  /\ role = "publisher"
  /\ readiness = {}
  /\ Len(written) < MaxRun
  /\ events' = {}
  /\ pc' = "dispatch"
  /\ wticks' = 0
  /\ taken' = <<>> /\ drain_q0' = <<>> /\ drain_narr' = 0 /\ errs' = 0
  /\ last' = "poll"
  /\ UNCHANGED <<moveVars, cfgVars, sticks, status_seen,
                 role, readiness, stop_chan, reader_q, status_q, pubVars,
                 narrived, nstatus>>

RunNext == PollTimeout \/ PublishTick
SpecRun == RunInit /\ [][RunNext]_vars

\* ------------------------------------------------------------------------
\* FairPub: the publisher, whose single thread takes its next step whenever
\* it has one
\* ------------------------------------------------------------------------

\* the publisher at the start of its loop, with the largest and the smallest
\* draws of the velocity lottery
PubInit ==
  /\ Init /\ role = "publisher"
  /\ x_vel \in {-5, 4} /\ y_vel \in {-2, 1}
PubMain ==
  \/ Poll \/ DispatchStop \/ DispatchStatus \/ RecvStatus \/ DispatchOther
  \/ PublishTick
PubNext == CtrlC \/ StatusArrive \/ Spurious \/ PubMain
FairPub == PubInit /\ [][PubNext]_vars /\ WF_vars(PubMain)

\* ------------------------------------------------------------------------
\* Properties of move_shape (SpecMove)
\* ------------------------------------------------------------------------

Returned == ret.kind = "ok"
ArgHalf == half_size(arg.shape)
\* the tentative coordinates x + xv and y + yv of the call
TentX == WrapAdd(arg.shape.x, arg.xv)
TentY == WrapAdd(arg.shape.y, arg.yv)
InsideX == ArgHalf <= TentX.val /\ TentX.val <= DA_WIDTH - ArgHalf
InsideY == ArgHalf <= TentY.val /\ TentY.val <= DA_HEIGHT - ArgHalf
ValidArg == arg.shape.shapesize >= 0 /\ arg.xv # 0 /\ arg.yv # 0

\* C1 as stated: for every input with shapesize >= 0 and xv, yv # 0 the
\* returned position satisfies half <= x <= 240 - half and
\* half <= y <= 270 - half.
C1_AsStated ==
  (Returned /\ ValidArg) =>
    /\ ArgHalf <= ret.shape.x /\ ret.shape.x <= DA_WIDTH - ArgHalf
    /\ ArgHalf <= ret.shape.y /\ ret.shape.y <= DA_HEIGHT - ArgHalf

\* C1 (amended): for every input with shapesize >= 0 and xv, yv # 0 the
\* returned position satisfies x <= 240 - half and y <= 270 - half; the lower
\* bound half <= x holds when shapesize <= 239 and half <= y when
\* shapesize <= 269.  For larger sizes the coordinate is 240 - half
\* (270 - half), which is below half.
C1_Bounds ==
  (Returned /\ ValidArg) =>
    /\ ret.shape.x <= DA_WIDTH - ArgHalf
    /\ ret.shape.y <= DA_HEIGHT - ArgHalf
    /\ (arg.shape.shapesize <= 239 => ArgHalf <= ret.shape.x)
    /\ (arg.shape.shapesize <= 269 => ArgHalf <= ret.shape.y)
    /\ (arg.shape.shapesize > 239 =>
          ret.shape.x = DA_WIDTH - ArgHalf /\ ret.shape.x < ArgHalf)
    /\ (arg.shape.shapesize > 269 =>
          ret.shape.y = DA_HEIGHT - ArgHalf /\ ret.shape.y < ArgHalf)

\* a call from far outside the arena (wrapped x + xv) that returned, with the
\* largest size that keeps both intervals non-empty
C1_Witness ==
  /\ Returned /\ ValidArg
  /\ arg.shape.shapesize = 239
  /\ arg.shape.x = MaxI32 /\ arg.xv = 300
  /\ arg.shape.y = 260
  /\ ret.shape.x = 120 /\ ret.shape.y = 150

\* C2: for each axis separately, the returned velocity component is the
\* negation of the input component exactly when the tentative coordinate lies
\* outside [half, LIMIT - half] of that axis, and equals the input component
\* exactly when it lies inside; the other axis plays no part.
C2_FlipIffOutside ==
  Returned =>
    /\ (ret.xv = 0 - arg.xv) <=> ~InsideX
    /\ (ret.xv = arg.xv) <=> InsideX
    /\ (ret.yv = 0 - arg.yv) <=> ~InsideY
    /\ (ret.yv = arg.yv) <=> InsideY

\* a call that collides on the x axis only
C2_Witness ==
  /\ Returned /\ ~InsideX /\ InsideY
  /\ arg.shape.shapesize = 21
  /\ ret.xv = 0 - arg.xv /\ ret.yv = arg.yv

\* the bounds of an axis that the tentative coordinate t violates
Violated(t, half, limit) ==
  (IF t < half THEN {half} ELSE {}) \cup
  (IF t > limit - half THEN {limit - half} ELSE {})

ExampleCorner ==
  (/\ arg.shape.x = 1 /\ arg.shape.y = 1 /\ arg.shape.shapesize = 20
   /\ arg.xv = -3 /\ arg.yv = -3)
    => /\ ret.shape.x = 11 /\ ret.shape.y = 11
       /\ ret.xv = 3 /\ ret.yv = 3

\* C3 as stated: when the tentative position is out of bounds on both axes,
\* both coordinates are pinned to their violated bounds and both velocity
\* components are negated in that call; {1, 1, 20} with (-3, -3) yields
\* (11, 11) and (3, 3).
C3_AsStated ==
  (Returned /\ ~InsideX /\ ~InsideY) =>
    /\ ret.shape.x \in Violated(TentX.val, ArgHalf, DA_WIDTH)
    /\ ret.shape.y \in Violated(TentY.val, ArgHalf, DA_HEIGHT)
    /\ ret.xv = 0 - arg.xv /\ ret.yv = 0 - arg.yv
    /\ ExampleCorner

\* C3 (amended): when the tentative position is out of bounds on both axes,
\* both velocity components are negated in that call, and each coordinate is
\* pinned to the bound it violated provided half <= LIMIT - half on its axis
\* (shapesize <= 239 for x, <= 269 for y); for larger sizes the coordinate
\* ends at LIMIT - half whichever bound was violated.  {1, 1, 20} with
\* (-3, -3) yields (11, 11) and (3, 3).
C3_Corner ==
  (Returned /\ ~InsideX /\ ~InsideY) =>
    /\ ret.xv = 0 - arg.xv /\ ret.yv = 0 - arg.yv
    /\ IF arg.shape.shapesize <= 239
         THEN ret.shape.x \in Violated(TentX.val, ArgHalf, DA_WIDTH)
         ELSE ret.shape.x = DA_WIDTH - ArgHalf
    /\ IF arg.shape.shapesize <= 269
         THEN ret.shape.y \in Violated(TentY.val, ArgHalf, DA_HEIGHT)
         ELSE ret.shape.y = DA_HEIGHT - ArgHalf
    /\ ExampleCorner

\* the corner example of the claim
C3_Witness ==
  /\ Returned /\ ~InsideX /\ ~InsideY
  /\ arg.shape.x = 1 /\ arg.shape.y = 1 /\ arg.shape.shapesize = 20
  /\ arg.xv = -3 /\ arg.yv = -3
  /\ ret.shape.x = 11 /\ ret.shape.y = 11 /\ ret.xv = 3 /\ ret.yv = 3

\* C4: when the tentative coordinate of an axis crosses no boundary
\* (half <= coordinate + velocity <= LIMIT - half), the returned coordinate
\* is exactly coordinate + velocity and the velocity is unchanged;
\* {120, 120, 20} with (3, 3) yields (123, 123) and (3, 3).
C4_NoCrossing ==
  Returned =>
    /\ InsideX => /\ ~TentX.ovf
                  /\ ret.shape.x = arg.shape.x + arg.xv
                  /\ ret.xv = arg.xv
    /\ InsideY => /\ ~TentY.ovf
                  /\ ret.shape.y = arg.shape.y + arg.yv
                  /\ ret.yv = arg.yv
    /\ (/\ arg.shape.x = 120 /\ arg.shape.y = 120
        /\ arg.shape.shapesize = 20 /\ arg.xv = 3 /\ arg.yv = 3)
         => /\ ret.shape.x = 123 /\ ret.shape.y = 123
            /\ ret.xv = 3 /\ ret.yv = 3

\* the free-motion example of the claim
C4_Witness ==
  /\ Returned /\ InsideX /\ InsideY
  /\ arg.shape.x = 120 /\ arg.shape.y = 120 /\ arg.shape.shapesize = 20
  /\ arg.xv = 3 /\ arg.yv = 3
  /\ ret.shape.x = 123 /\ ret.shape.y = 123 /\ ret.xv = 3 /\ ret.yv = 3

\* ------------------------------------------------------------------------
\* Properties of the loops of main (Spec, FairSub)
\* ------------------------------------------------------------------------

\* a step of main (the environment changes none of these)
MainStep == pc' # pc \/ events' # events \/ last' # last

\* the take loop has been left
DrainEnded ==
  pc # "drain" /\ last \in {"take_some", "take_none", "take_err"}

\* C5: when the reader holds N queued updates and no update arrives and no
\* take fails before none-available is reported, one drain takes exactly
\* those N items, each once and in queue order, and returns to the event
\* loop; it takes no fewer and no more.
C5_DrainExact ==
  /\ (pc = "drain" /\ drain_narr = 0 /\ errs = 0)
       => taken \o reader_q = drain_q0
  /\ (DrainEnded /\ drain_narr = 0 /\ errs = 0)
       => /\ taken = drain_q0
          /\ last = "take_none"
          /\ pc = "dispatch"

\* a drain of N = 2 queued updates has ended
C5_Witness ==
  /\ DrainEnded /\ drain_narr = 0 /\ errs = 0
  /\ Len(drain_q0) = 2 /\ taken = drain_q0

\* C6: in both roles, a cancellation event whose try_recv finds nothing
\* leaves the loop running with the remaining events of the wakeup; the
\* loop reaches its success exit only in a step that takes a message off
\* the stop channel.
C6_EmptyCancel ==
  /\ [](last = "stop_empty" => pc \in {"dispatch", "status", "drain", "poll"})
  /\ [][(MainStep /\ last' = "stop_empty")
          => /\ pc = "dispatch" /\ STOP_PROGRAM \in events /\ stop_chan = 0
             /\ pc' = "dispatch"
             /\ events' = events \ {STOP_PROGRAM}
             /\ stop_chan' = 0]_vars
  /\ [][(/\ pc = "dispatch" /\ STOP_PROGRAM \in events /\ stop_chan = 0
         /\ MainStep /\ STOP_PROGRAM \notin events')
          => /\ pc' = "dispatch"
             /\ events' = events \ {STOP_PROGRAM}
             /\ stop_chan' = 0
             /\ last' = "stop_empty"]_vars
  /\ [][(pc' = "done" /\ pc # "done")
          => stop_chan > 0 /\ stop_chan' = stop_chan - 1]_vars

\* a cancellation event found the channel empty and the wakeup still has
\* events to dispatch
C6_Witness ==
  /\ last = "stop_empty" /\ stop_chan = 0
  /\ pc = "dispatch" /\ events # {}

\* C7: every completed wakeup of the publisher performs exactly one publish
\* tick, after all events of the wakeup have been dispatched, whether the
\* wakeup had events or was a timeout.
C7_Cadence ==
  /\ [](role = "publisher" =>
          /\ wticks <= 1
          /\ pc \in {"dispatch", "status"} => wticks = 0
          /\ (pc = "poll" /\ last # "init") => wticks = 1)
  /\ [][wticks' > wticks
          => /\ pc = "dispatch" /\ events = {}
             /\ wticks' = wticks + 1]_vars
  /\ [][(role = "publisher" /\ pc = "poll" /\ pc' # "poll" /\ last # "init")
          => wticks = 1]_vars

\* the publisher is back at poll after a wakeup that drained a status and
\* after two ticks
C7_Witness ==
  /\ role = "publisher" /\ pc = "poll" /\ wticks = 1
  /\ Len(written) = 2
  /\ nstatus = 1 /\ status_q = <<>>

\* C8: a failed write stops the process in a failure state that is not the
\* success exit, and after it main never waits, dispatches, moves the shape
\* or publishes again.
C8_WriteFatal ==
  /\ [](last = "write_failed" => pc = "panic")
  /\ [](pc = "panic" => last \in {"write_failed", "move_panic"})
  /\ [][pc = "panic" => UNCHANGED vars]_vars

\* a write failed after an earlier one succeeded, with a cancellation signal
\* pending that is never waited for
C8_Witness ==
  /\ pc = "panic" /\ last = "write_failed"
  /\ Len(written) = 1
  /\ STOP_PROGRAM \in readiness /\ stop_chan > 0

\* C9: the loop reaches its success exit only by a cancellation event whose
\* try_recv takes a message, and every such step exits; a status-ready event,
\* a data-ready event, an unrecognized token and a failing take leave the
\* loop running, and the subscriber goes back to poll after the last event.
C9_OnlyCancelExits ==
  /\ [][(pc' = "done" /\ pc # "done")
          => /\ pc = "dispatch" /\ STOP_PROGRAM \in events
             /\ stop_chan > 0 /\ stop_chan' = stop_chan - 1]_vars
  /\ [][stop_chan' < stop_chan => pc' = "done"]_vars
  /\ [][(pc \in {"status", "drain"}) => pc' \in {pc, "dispatch"}]_vars
  /\ [][(pc = "dispatch" /\ events # {} /\ events' # events)
          => pc' \in {"dispatch", "status", "drain"}]_vars
  /\ [][(role = "subscriber" /\ pc = "dispatch" /\ events = {})
          => pc' \in {"dispatch", "poll"}]_vars
  /\ [](last \in {"to_status", "status_some", "status_none", "to_drain",
                  "take_some", "take_none", "take_err", "other"}
          => pc \in {"dispatch", "status", "drain"})

\* the subscriber exited through the cancellation path after wakeups that
\* took data and drained a status
C9_Witness ==
  /\ role = "subscriber" /\ pc = "done" /\ last = "stop_recv"
  /\ narrived = 2 /\ reader_q = <<>>
  /\ nstatus = 1 /\ status_q = <<>>

\* C10: once the cancellation signal has been sent, the subscriber
\* eventually consumes it and terminates, even when take_next_sample keeps
\* reporting errors during a drain.
C10_SubscriberTerminates ==
  (role = "subscriber" /\ stop_chan > 0) ~> (pc = "done")

\* a take of the drain has returned Err(e)
TakeFailed == errs' # errs /\ errs' # 0

\* the updates the current drain has had before it: those queued at its
\* start followed by those that arrived during it
DrainInput == taken \o reader_q

\* C12: a take that returns Err inside the subscriber drain is reported and
\* leaves the loop running with the queue and the items taken untouched;
\* the drain is left only by a take that reports none-available, and at that
\* point every update queued at its start or arrived during it has been
\* taken, in queue order, however many takes failed.
C12_ErrKeepsDraining ==
  /\ [][TakeFailed
          => /\ pc = "drain" /\ pc' = "drain"
             /\ last' = "take_err"
             /\ reader_q' = reader_q /\ taken' = taken]_vars
  /\ [](pc = "drain"
          => /\ Len(DrainInput) = Len(drain_q0) + drain_narr
             /\ SubSeq(DrainInput, 1, Len(drain_q0)) = drain_q0)
  /\ [](DrainEnded
          => /\ last = "take_none" /\ pc = "dispatch"
             /\ Len(taken) = Len(drain_q0) + drain_narr
             /\ SubSeq(taken, 1, Len(drain_q0)) = drain_q0
             /\ \A i \in 1 .. Len(taken) - 1 : taken[i].id < taken[i + 1].id)
  /\ [][(pc = "drain" /\ pc' # "drain")
          => reader_q = <<>> /\ last' = "take_none"]_vars

\* a drain in which takes failed has ended with both queued updates taken
C12_Witness ==
  /\ DrainEnded /\ errs # 0
  /\ Len(drain_q0) = 2 /\ taken = drain_q0

\* the status notifications in the order they were queued
StatusSent == [i \in 1 .. nstatus |-> i]

\* C16: in both roles the status handler prints the head of the status queue
\* until try_recv_status reports none, so the notifications printed so far
\* followed by those still queued are the notifications sent, each once and
\* in order; the handler is left only with the queue empty and only back to
\* the event loop, and in the publisher the tick of that wakeup is still to
\* come and can be taken once the events are dispatched.
C16_StatusDrain ==
  /\ [](status_seen \o status_q = StatusSent)
  /\ [][status_seen' # status_seen
          => /\ pc = "status" /\ pc' = "status" /\ status_q # <<>>
             /\ status_seen' = Append(status_seen, Head(status_q))
             /\ status_q' = Tail(status_q)]_vars
  /\ [][((pc = "status") /\ pc' # "status")
          => /\ status_q = <<>> /\ status_q' = <<>>
             /\ pc' = "dispatch" /\ last' = "status_none"
             /\ events' = events]_vars
  /\ [](pc = "status" => wticks = 0)
  /\ []((role = "publisher" /\ pc = "dispatch" /\ events = {})
          => ENABLED PublishTick)

\* the handler of the publisher's first wakeup has printed two queued
\* notifications in order and returned
C16_Witness ==
  /\ role = "publisher" /\ written = <<>>
  /\ last = "status_none" /\ pc = "dispatch"
  /\ status_seen = <<1, 2>> /\ status_q = <<>>

\* C19: the publisher takes the cancellation message only in the dispatch of
\* a STOP_PROGRAM event, before the tick of that wakeup, and that step ends
\* the run with no tick and no further event dispatched; a tick never
\* touches the stop channel; at most one tick is performed while a
\* cancellation message is pending; and once a message is pending the
\* publisher terminates, by the success exit or by a failed publish.
C19_BoundedCancel ==
  /\ [](sticks <= 1)
  /\ [][stop_chan' < stop_chan
          => /\ pc = "dispatch" /\ STOP_PROGRAM \in events /\ wticks = 0
             /\ pc' = "done" /\ last' = "stop_recv"
             /\ UNCHANGED <<events, pubVars, wticks, status_q>>]_vars
  /\ [][wticks' > wticks
          => /\ pc = "dispatch" /\ events = {}
             /\ stop_chan' = stop_chan]_vars
  /\ [][(pc = "done") => UNCHANGED vars]_vars
  /\ [](pc = "done" => wticks = 0 /\ last = "stop_recv")
  /\ []((stop_chan > 0 /\ pc = "poll") => STOP_PROGRAM \in readiness)
  /\ (stop_chan > 0) ~> (pc \in {"done", "panic"})
  /\ [](pc = "panic" => last \in {"write_failed", "move_panic"})

\* the publisher has left by the success exit after the one tick it
\* performed while the cancellation message was pending
C19_Witness ==
  /\ role = "publisher" /\ pc = "done" /\ last = "stop_recv"
  /\ sticks = 1 /\ Len(written) >= 1

\* update k is in the reader's queue
InQueue(k) == \E i \in 1 .. Len(reader_q) : reader_q[i].id = k

\* C20: every update that reaches the reader while the subscriber runs is
\* eventually taken out of the queue and printed, unless the subscriber has
\* left by its success exit before; and the subscriber never waits in poll
\* with updates queued and no READER_READY notification pending.
C20_NoUpdateStranded ==
  /\ \A k \in 1 .. MaxArrivals :
       (role = "subscriber" /\ InQueue(k)) ~> (~InQueue(k) \/ pc = "done")
  /\ []((role = "subscriber" /\ pc = "poll" /\ reader_q # <<>>)
          => READER_READY \in readiness)

\* ------------------------------------------------------------------------
\* Properties of the publisher run (SpecRun)
\* ------------------------------------------------------------------------

\* the shape and the velocity after k calls of move_shape from the
\* publisher's initial state
RECURSIVE Trajectory(_)
Trajectory(k) ==
  IF k = 0
    THEN [shape |-> [color |-> shape_sample.color, x |-> 0, y |-> 0,
                     shapesize |-> 21],
          xv |-> vel0[1], yv |-> vel0[2]]
    ELSE LET p == Trajectory(k - 1)
         IN  move_shape(p.shape, p.xv, p.yv)

\* the number of calls of move_shape so far: one per sample written, and
\* one more when the last write failed
Moves == Len(written) + (IF last = "write_failed" THEN 1 ELSE 0)

\* C13: the k-th sample written is move_shape applied k times to the
\* initial state (x = 0, y = 0, shapesize 21, the velocity drawn); the
\* shape and the velocity the publisher holds are those the last call of
\* move_shape returned; the initial position (0, 0) is never written.
C13_TickTrajectory ==
  /\ <<shape_sample, x_vel, y_vel>>
       = LET t == Trajectory(Moves) IN <<t.shape, t.xv, t.yv>>
  /\ (Len(written) > 0 /\ last # "write_failed")
       => written[Len(written)] = shape_sample
  /\ (Len(written) > 0 /\ last = "write_failed")
       => written[Len(written)] = Trajectory(Len(written)).shape
  /\ \A i \in 1 .. Len(written) : written[i].x # 0 /\ written[i].y # 0

\* three samples have been written and the publisher waits for the next
\* wakeup
C13_Witness ==
  /\ pc = "poll" /\ Len(written) = 3
  /\ written[3] = shape_sample
  /\ written[3] # written[2]

\* C14: neither velocity component of the publisher is ever zero; each is
\* the value drawn at the start or its negation; a positive draw lies in
\* 1..4 and a negative draw in -5..-2.
C14_VelocityInvariant ==
  /\ x_vel # 0 /\ y_vel # 0
  /\ x_vel \in {vel0[1], -vel0[1]}
  /\ y_vel \in {vel0[2], -vel0[2]}
  /\ \A i \in 1 .. 2 :
       /\ vel0[i] > 0 => vel0[i] \in 1 .. 4
       /\ vel0[i] < 0 => -vel0[i] \in 2 .. 5

\* late in a run the x component is the negation of its draw and the y
\* component, negated an even number of times, is its draw
C14_Witness ==
  /\ Len(written) > 60
  /\ x_vel = -vel0[1] /\ y_vel = vel0[2]
  /\ \E i \in 1 .. Len(written) : written[i].y = DA_HEIGHT - 11

\* C15: a tick changes neither the color nor the shapesize of the
\* publisher's shape, and every sample written carries the color chosen at
\* the start and shapesize 21.
C15_KeyAndSizeKept ==
  /\ [][/\ shape_sample'.color = shape_sample.color
         /\ shape_sample'.shapesize = shape_sample.shapesize]_vars
  /\ [](/\ shape_sample.color \in Colors
         /\ shape_sample.shapesize = 21
         /\ \A i \in 1 .. Len(written) :
              /\ written[i].color = shape_sample.color
              /\ written[i].shapesize = 21)

\* two samples of a RED publisher have been written at different positions
C15_Witness ==
  /\ Len(written) >= 2
  /\ shape_sample.color = "RED"
  /\ written[1].color = "RED" /\ written[2].color = "RED"
  /\ written[1].x # written[2].x \/ written[1].y # written[2].y

\* C17: every sample written lies in the arena of a shape of size 21:
\* 11 <= x <= 229 and 11 <= y <= 259, for every draw of the velocity and
\* every number of ticks, the start at (0, 0) notwithstanding.
C17_PublishedInArena ==
  \A i \in 1 .. Len(written) :
    /\ 11 <= written[i].x /\ written[i].x <= 229
    /\ 11 <= written[i].y /\ written[i].y <= 259

\* the run has published the lower bound of both axes and the upper bound
\* of both axes
C17_Witness ==
  /\ Len(written) > 0
  /\ written[1].x = 11 /\ written[1].y = 11
  /\ \E i \in 1 .. Len(written) : written[i].x = 229
  /\ \E i \in 1 .. Len(written) : written[i].y = 259

\* a step that is a publisher tick whose move_shape returned
Ticked == wticks' > wticks /\ last' # "move_panic"

\* the tentative coordinates of the tick about to happen
NextX == shape_sample.x + x_vel
NextY == shape_sample.y + y_vel
\* the tick about to happen pins the coordinate to a bound (half = 11)
PinLowX == NextX < 11
PinHighX == NextX > DA_WIDTH - 11
PinLowY == NextY < 11
PinHighY == NextY > DA_HEIGHT - 11

\* C18 as stated: at every tick that pins a coordinate to its lower bound
\* the velocity component after the tick is positive, and at every tick that
\* pins it to its upper bound the component after the tick is negative.
C18_AsStated ==
  [][Ticked
       => /\ PinLowX => x_vel' > 0
          /\ PinHighX => x_vel' < 0
          /\ PinLowY => y_vel' > 0
          /\ PinHighY => y_vel' < 0]_vars

\* C18 (amended): at every tick that starts with the coordinate inside the
\* arena, a pin to the lower bound leaves a positive velocity component and
\* a pin to the upper bound a negative one.  The first tick starts at
\* (0, 0), outside the arena: it pins both coordinates to 11 and negates
\* both components, so a component drawn positive points out of the arena
\* after it and the second tick pins that coordinate to 11 again.  No other
\* tick leaves a component pointing out of the arena.
C18_Reflection ==
  /\ [][(Ticked /\ shape_sample.x >= 11)
          => /\ PinLowX => x_vel' > 0
             /\ PinHighX => x_vel' < 0]_vars
  /\ [][(Ticked /\ shape_sample.y >= 11)
          => /\ PinLowY => y_vel' > 0
             /\ PinHighY => y_vel' < 0]_vars
  /\ [][(Ticked /\ written = <<>>)
          => /\ shape_sample.x = 0 /\ shape_sample.y = 0
             /\ PinLowX /\ PinLowY
             /\ shape_sample'.x = 11 /\ shape_sample'.y = 11
             /\ x_vel' = -vel0[1] /\ y_vel' = -vel0[2]]_vars
  /\ [][(Ticked /\ Len(written) = 1)
          => /\ vel0[1] > 0 => (PinLowX /\ x_vel' > 0)
             /\ vel0[2] > 0 => (PinLowY /\ y_vel' > 0)
             /\ vel0[1] < 0 => ~PinLowX
             /\ vel0[2] < 0 => ~PinLowY]_vars
  /\ [][(Ticked /\ written # <<>>)
          => /\ shape_sample.x >= 11 /\ shape_sample.y >= 11
             /\ shape_sample.x <= DA_WIDTH - 11
             /\ shape_sample.y <= DA_HEIGHT - 11]_vars

\* a run with a positive draw on x: the first two samples are both at the
\* lower bound, and the last tick has pinned x to the lower bound from
\* inside the arena, leaving a positive component
C18_Witness ==
  /\ Len(written) > 2 /\ pc = "poll" /\ vel0[1] > 0
  /\ written[1].x = 11 /\ written[2].x = 11
  /\ written[Len(written) - 1].x > 11
  /\ written[Len(written)].x = 11 /\ x_vel > 0

\* ------------------------------------------------------------------------
\* Properties of the start of main (SpecProgram)
\* ------------------------------------------------------------------------

\* C11: when the partition, the interval or the ownership strength option is
\* present, main panics in the QoS check with no entity created, no token
\* registered and nothing published or taken, and never gets further; when
\* none is present the QoS check does not panic.
C11_UnsupportedQosFatal ==
  /\ flags # {} =>
       /\ pc \in {"qos", "panic"}
       /\ pc = "panic" => last = "qos_panic"
       /\ created = {} /\ registered = {}
       /\ written = <<>> /\ taken = <<>> /\ events = {}
       /\ shape_sample = NoShape
  /\ flags = {} => last # "qos_panic"
  /\ "topic" \notin created => pc \in {"qos", "topic", "panic"}

\* main has panicked on the ownership strength option alone
C11_Witness ==
  /\ flags = {"ownership_strength"}
  /\ pc = "panic" /\ last = "qos_panic"
  /\ created = {} /\ registered = {}

====
